---- MODULE Spec2Model ----
(***************************************************************************)
(* BubbleTender: the Bubble Tea model of src/main.go (struct model, its    *)
(* constructor initialModel and its message handler model.Update) as a     *)
(* state machine.  One action, Update, processes one message exactly as    *)
(* the handler does, the table component's own key handling included.      *)
(***************************************************************************)
EXTENDS Integers, Sequences, FiniteSets, TLC

(* ---------------------------------------------------------------- bounds *)

\* The largest total quantity the cart is let grow to.  Beer has a stock of
\* 6, so its stock ceiling is reached; an increment that would not grow the
\* cart (one at the ceiling) is delivered whatever the total.
MaxTotal == 6

\* The largest number of keys the cart map is let hold.
MaxItems == 2

\* The longest run of one key followed from a state (13 presses pass the
\* stock of 12 of Fritz-Kola, and that of 6 of Beer).
MaxPresses == 13

(* ------------------------------------------------------------------ data *)

\* Prices are held in cents (1.50 is 150).
ourBeverages ==
  << [Name |-> "Club-Mate",  Price |-> 150, Stock |-> 24],
     [Name |-> "Espresso",   Price |-> 100, Stock |-> 50],
     [Name |-> "Fritz-Kola", Price |-> 200, Stock |-> 12],
     [Name |-> "Water",      Price |-> 50,  Stock |-> 100],
     [Name |-> "Beer",       Price |-> 250, Stock |-> 6] >>

\* Go slices are indexed from 0, TLA+ sequences from 1.
Indices == 0 .. (Len(ourBeverages) - 1)
Beverage(i) == ourBeverages[i + 1]
Stock(i) == Beverage(i).Stock

\* activeTab values.
ShopTab == 0
CartTab == 1

\* table.WithHeight(7).
TableHeight == 7

(* ------------------------------------------------------------ formatting *)

Digit(d) == <<"0", "1", "2", "3", "4", "5", "6", "7", "8", "9">>[d + 1]

\* fmt.Sprintf("%d", n): a sign if negative, then the decimal digits, most
\* significant first.
RECURSIVE FormatInt(_)
FormatInt(n) ==
  IF n < 0 THEN <<"-">> \o FormatInt(0 - n)
  ELSE IF n < 10 THEN <<Digit(n)>>
  ELSE Append(FormatInt(n \div 10), Digit(n % 10))

\* fmt.Sprintf("€%.2f", p) for a price p of whole cents.
FormatPrice(cents) ==
  <<"€">> \o FormatInt(cents \div 100) \o <<".">>
          \o <<Digit((cents % 100) \div 10), Digit(cents % 10)>>

(* ------------------------------------------------------------------ cart *)

\* map[int]int: a function on the keys present; reading an absent key gives 0.
EmptyCart == [i \in {} |-> 0]
Get(c, k) == IF k \in DOMAIN c THEN c[k] ELSE 0
Put(c, k, v) == [i \in (DOMAIN c) \cup {k} |-> IF i = k THEN v ELSE c[i]]

RECURSIVE SumOver(_, _)
SumOver(c, S) ==
  IF S = {} THEN 0
  ELSE LET k == CHOOSE x \in S : TRUE IN c[k] + SumOver(c, S \ {k})
Total(c) == SumOver(c, DOMAIN c)

(* ----------------------------------------------------------------- table *)

\* The rows built from the catalog and the cart, in initialModel and in Update.
BuildRows(c) ==
  [i \in 1 .. Len(ourBeverages) |->
     << ourBeverages[i].Name,
        FormatPrice(ourBeverages[i].Price),
        FormatInt(ourBeverages[i].Stock),
        FormatInt(Get(c, i - 1)) >>]

Max(a, b) == IF a > b THEN a ELSE b
Min(a, b) == IF a < b THEN a ELSE b
Clamp(v, lo, hi) == Max(lo, Min(v, hi))

\* table.Model.SetRows: replaces the rows, pulls the cursor back into them.
SetRows(t, r) ==
  [t EXCEPT !.rows = r,
            !.cursor = IF t.cursor > Len(r) - 1 THEN Len(r) - 1 ELSE t.cursor]

MoveUpUnclamped(t, n) == [t EXCEPT !.cursor = t.cursor - n]
MoveDownUnclamped(t, n) == [t EXCEPT !.cursor = t.cursor + n]

\* table.Model.MoveUp / MoveDown: n rows, clamped to the rows held.
MoveUp(t, n) == [t EXCEPT !.cursor = Clamp(t.cursor - n, 0, Len(t.rows) - 1)]
MoveDown(t, n) == [t EXCEPT !.cursor = Clamp(t.cursor + n, 0, Len(t.rows) - 1)]

\* The table's default key map.
LineUpKeys == {"up", "k"}
LineDownKeys == {"down", "j"}
PageUpKeys == {"b", "pgup"}
PageDownKeys == {"f", "pgdown", " "}
HalfPageUpKeys == {"u", "ctrl+u"}
HalfPageDownKeys == {"d", "ctrl+d"}
GotoTopKeys == {"home", "g"}
GotoBottomKeys == {"end", "G"}

\* table.Model.Update, called with every key message the Shop tab handles.
\* A page is the table's viewport; with five rows a full page reaches the
\* first or the last row from anywhere.
TableUpdate(t, msg) ==
  IF ~t.focus THEN t
  ELSE IF msg.type # "key" THEN t
  ELSE IF msg.key \in LineUpKeys THEN MoveUp(t, 1)
  ELSE IF msg.key \in LineDownKeys THEN MoveDown(t, 1)
  ELSE IF msg.key \in PageUpKeys THEN MoveUp(t, TableHeight)
  ELSE IF msg.key \in PageDownKeys THEN MoveDown(t, TableHeight)
  ELSE IF msg.key \in HalfPageUpKeys THEN MoveUp(t, TableHeight \div 2)
  ELSE IF msg.key \in HalfPageDownKeys THEN MoveDown(t, TableHeight \div 2)
  ELSE IF msg.key \in GotoTopKeys THEN MoveUp(t, t.cursor)
  ELSE IF msg.key \in GotoBottomKeys THEN MoveDown(t, Len(t.rows))
  ELSE t

(* -------------------------------------------------------------- messages *)

QuitKeysOnlyQ == {"q"}

\* case "ctrl+c", "q".
QuitKeys == {"ctrl+c", "q"}
IncrementKeys == {"+", "=", "right"}
DecrementKeys == {"-", "left"}
DeclineKeys == {"n", "esc"}

\* Every key some branch of the handler or of the table names, and one ("x")
\* that none names.
Keys ==
  QuitKeys \cup {"s", "c"} \cup IncrementKeys \cup DecrementKeys
    \cup {"enter", "y"} \cup DeclineKeys
    \cup LineUpKeys \cup LineDownKeys \cup PageUpKeys \cup PageDownKeys
    \cup HalfPageUpKeys \cup HalfPageDownKeys \cup GotoTopKeys \cup GotoBottomKeys
    \cup {"x"}

KeyMsg(k) == [type |-> "key", key |-> k]
WindowSizeMsg(w, h) == [type |-> "size", Width |-> w, Height |-> h]
\* A message that is neither a key press nor a resize (the program enables
\* mouse reporting).
MouseMsg == [type |-> "mouse"]

\* The terminal sizes a resize may report.
Sizes == {<<1, 2>>, <<2, 1>>}

Msgs ==
  {KeyMsg(k) : k \in Keys} \cup {WindowSizeMsg(s[1], s[2]) : s \in Sizes}
    \cup {MouseMsg}

(* ----------------------------------------------------------------- views *)

\* The orders in which a range over a map with keys S may visit them: Go
\* fixes none, and two ranges over the same map may differ.
Orders(S) ==
  {o \in [1 .. Cardinality(S) -> S] : \A a, b \in DOMAIN o : a # b => o[a] # o[b]}

ShowsLineZeroToo(quantity) == quantity >= 0

\* if quantity > 0.
ShowsLine(quantity) == quantity > 0

ItemPriceOfOne(beverage, quantity) == beverage.Price

\* itemPrice := beverage.Price * float64(quantity).  Every price of the
\* catalog is a multiple of 0.25, so the float64 products and sums are exact
\* and equal the ones in cents.
ItemPrice(beverage, quantity) == beverage.Price * quantity

\* "  %dx %-20s @ €%.2f each = €%.2f\n"
ItemLine(i, quantity) ==
  FormatInt(quantity) \o <<"x ", Beverage(i).Name, " @ ">>
    \o FormatPrice(Beverage(i).Price) \o <<" each = ">>
    \o FormatPrice(ItemPrice(Beverage(i), quantity))

\* The loop of cartView after the first n keys of order: the lines written,
\* totalPrice and hasItems.
RECURSIVE CartLoop(_, _, _)
CartLoop(c, order, n) ==
  IF n = 0 THEN [lines |-> <<>>, totalPrice |-> 0, hasItems |-> FALSE]
  ELSE LET acc == CartLoop(c, order, n - 1)
           i == order[n]
       IN IF ShowsLine(c[i])
            THEN [lines |-> Append(acc.lines, ItemLine(i, c[i])),
                  totalPrice |-> acc.totalPrice + ItemPrice(Beverage(i), c[i]),
                  hasItems |-> TRUE]
            ELSE acc

EmptyCartText == <<"  Your cart is empty!">>
SeparatorLine == <<"  -------------------------------------------">>
TotalLine(totalPrice) == <<"  Total: ">> \o FormatPrice(totalPrice)
ConfirmPrompt == <<"Confirm purchase? (y/n)", "(Press 'esc' or 'n' to cancel checkout)">>
CheckoutHint == <<"Press 'enter' to checkout.">>

\* model.cartView when the range visits the cart in the given order: the
\* lines of the string built.
cartView(m, order) ==
  LET acc == CartLoop(m.cart, order, Len(order)) IN
    <<  <<"Your Current Order:">>  >> \o acc.lines \o
      IF ~acc.hasItems
        THEN << EmptyCartText, <<"Go to the 'Shop' tab to add items.">> >>
        ELSE << SeparatorLine, TotalLine(acc.totalPrice),
                IF m.isCheckingOut THEN ConfirmPrompt ELSE CheckoutHint >>

\* table.Model.View: the header and the rows held, the cursor's row marked.
TableView(t) ==
  << <<"Name", "Price", "Stock", "Qty">> >> \o
  [i \in 1 .. Len(t.rows) |->
     (IF i - 1 = t.cursor THEN <<"selected">> ELSE <<>>)
       \o <<t.rows[i][1]>> \o t.rows[i][2] \o <<"|">> \o t.rows[i][3]
       \o <<"|">> \o t.rows[i][4]]

ShopHelp ==
  << <<"Use ←/→ to change quantity.">>,
     <<"Press 'c' to view cart, 'q' to quit.">> >>

\* model.View: the tab marked active, the content under the tabs and the
\* size it is placed in.  The borders and the padding are left out.
View(m, order) ==
  [tabs |-> <<"Shop [s]", "Cart [c]">>,
   activeTab |-> m.activeTab,
   content |-> IF m.activeTab = CartTab THEN cartView(m, order)
               ELSE TableView(m.table) \o ShopHelp,
   width |-> m.width,
   height |-> m.height]

\* The frames View may return for m.
Views(m) == {View(m, o) : o \in Orders(DOMAIN m.cart)}

(* ----------------------------------------------------------------- state *)

VARIABLES
  table,          \* model.table: [cursor, rows, focus]
  cart,           \* model.cart
  isCheckingOut,  \* model.isCheckingOut
  activeTab,      \* model.activeTab
  width,          \* model.width
  height,         \* model.height
  quit            \* "no", or the return that handed back tea.Quit and ended
                  \* the program: "quit key" or "accepted"

vars == <<table, cart, isCheckingOut, activeTab, width, height, quit>>

\* The model value the handler receives.
Model ==
  [table |-> table, cart |-> cart, isCheckingOut |-> isCheckingOut,
   activeTab |-> activeTab, width |-> width, height |-> height]

initialModel ==
  [table |-> [cursor |-> 0, rows |-> BuildRows(EmptyCart), focus |-> TRUE],
   cart |-> EmptyCart,
   isCheckingOut |-> FALSE,
   activeTab |-> ShopTab,
   width |-> 0,
   height |-> 0]

Init ==
  /\ table = initialModel.table
  /\ cart = initialModel.cart
  /\ isCheckingOut = initialModel.isCheckingOut
  /\ activeTab = initialModel.activeTab
  /\ width = initialModel.width
  /\ height = initialModel.height
  /\ quit = "no"

(* ---------------------------------------------------------------- Update *)

\* case "s" / case "c": the tab keys.
SwitchTabKeepPending(m, key) ==
  IF key = "s" THEN [m EXCEPT !.activeTab = ShopTab]
  ELSE IF key = "c" THEN [m EXCEPT !.activeTab = CartTab]
  ELSE m

SwitchTabCartKeepsPending(m, key) ==
  IF key = "s" THEN [m EXCEPT !.activeTab = ShopTab, !.isCheckingOut = FALSE]
  ELSE IF key = "c" THEN [m EXCEPT !.activeTab = CartTab]
  ELSE m

SwitchTab(m, key) ==
  IF key = "s" THEN [m EXCEPT !.activeTab = ShopTab, !.isCheckingOut = FALSE]
  ELSE IF key = "c" THEN [m EXCEPT !.activeTab = CartTab, !.isCheckingOut = FALSE]
  ELSE m

IncrementNoCeiling(c, cursor) == Put(c, cursor, Get(c, cursor) + 1)

IncrementOffByOne(c, cursor) ==
  IF Get(c, cursor) <= Stock(cursor) THEN Put(c, cursor, Get(c, cursor) + 1) ELSE c

\* case "+", "=", "right".
Increment(c, cursor) ==
  IF Get(c, cursor) < Stock(cursor) THEN Put(c, cursor, Get(c, cursor) + 1) ELSE c

DecrementNoFloor(c, cursor) == Put(c, cursor, Get(c, cursor) - 1)

\* case "-", "left".
Decrement(c, cursor) ==
  IF Get(c, cursor) > 0 THEN Put(c, cursor, Get(c, cursor) - 1) ELSE c

\* The quantity keys of the Shop tab.
ShopQuantity(m, key) ==
  IF key \in IncrementKeys THEN [m EXCEPT !.cart = Increment(m.cart, m.table.cursor)]
  ELSE IF key \in DecrementKeys THEN [m EXCEPT !.cart = Decrement(m.cart, m.table.cursor)]
  ELSE m

ShopUpdateRowsFirst(m, msg) ==
  LET m1 == [m EXCEPT !.table = SetRows(m.table, BuildRows(m.cart))]
      m2 == ShopQuantity(m1, msg.key)
  IN [m2 EXCEPT !.table = TableUpdate(m2.table, msg)]

\* case 0: the quantity keys, then the rows rebuilt, then the table's update.
ShopUpdate(m, msg) ==
  LET m1 == ShopQuantity(m, msg.key)
      m2 == [m1 EXCEPT !.table = SetRows(m1.table, BuildRows(m1.cart))]
  IN [m2 EXCEPT !.table = TableUpdate(m2.table, msg)]

HasItemsByLen(c) == DOMAIN c # {}

\* The loop over the cart that looks for a quantity above 0.
HasItems(c) == \E k \in DOMAIN c : c[k] > 0

ConfirmIgnored(m, key) == m

ConfirmWithoutItems(m, key) ==
  IF key = "enter" THEN [m EXCEPT !.isCheckingOut = TRUE] ELSE m

\* The else branch of case 1: enter asks for confirmation of a cart with items.
Confirm(m, key) ==
  IF key = "enter" /\ HasItems(m.cart) THEN [m EXCEPT !.isCheckingOut = TRUE] ELSE m

DeclineIgnored(m, key) == m

DeclineOnAnyKey(m, key) == [m EXCEPT !.isCheckingOut = FALSE]

\* case "n", "esc" while checking out.
Decline(m, key) ==
  IF key \in DeclineKeys THEN [m EXCEPT !.isCheckingOut = FALSE] ELSE m

AcceptQuitsAnywhere(m, key) == key = "y" /\ m.activeTab = CartTab

\* case "y" while checking out: return m, tea.Quit.
AcceptQuits(m, key) ==
  m.activeTab = CartTab /\ m.isCheckingOut /\ key = "y"

CartUpdateAlsoQuantity(m, msg) ==
  ShopQuantity(IF m.isCheckingOut THEN Decline(m, msg.key) ELSE Confirm(m, msg.key),
               msg.key)

\* case 1.
CartUpdate(m, msg) ==
  IF m.isCheckingOut THEN Decline(m, msg.key) ELSE Confirm(m, msg.key)

ResizeSwapped(m, msg) == [m EXCEPT !.width = msg.Height, !.height = msg.Width]

\* case tea.WindowSizeMsg.
Resize(m, msg) == [m EXCEPT !.width = msg.Width, !.height = msg.Height]

\* model.Update: the model returned, and which return (if any) handed back
\* tea.Quit.
UpdateModel(m, msg) ==
  IF msg.type = "size"
    THEN [m |-> Resize(m, msg), quit |-> "no"]
  ELSE IF msg.type # "key"
    THEN [m |-> m, quit |-> "no"]
  ELSE IF msg.key \in QuitKeys
    THEN [m |-> m, quit |-> "quit key"]
  ELSE
    LET m1 == SwitchTab(m, msg.key) IN
      IF m1.activeTab = ShopTab
        THEN [m |-> ShopUpdate(m1, msg), quit |-> "no"]
      ELSE IF m1.activeTab = CartTab
        THEN IF AcceptQuits(m1, msg.key)
               THEN [m |-> m1, quit |-> "accepted"]
               ELSE [m |-> CartUpdate(m1, msg), quit |-> "no"]
      ELSE [m |-> m1, quit |-> "no"]

\* msg is an increment the handler would store: the one message the bounds
\* hold back.
Grows(msg) ==
  /\ msg.type = "key"
  /\ msg.key \in IncrementKeys
  /\ activeTab = ShopTab
  /\ Get(cart, table.cursor) < Stock(table.cursor)

WithinBounds(msg) ==
  Grows(msg) =>
    /\ Total(cart) < MaxTotal
    /\ table.cursor \in DOMAIN cart \/ Cardinality(DOMAIN cart) < MaxItems

\* Update called on, whether or not tea.Quit has been returned.
UpdateAfterQuit(msg) ==
  /\ WithinBounds(msg)
  /\ LET r == UpdateModel(Model, msg) IN
       /\ table' = r.m.table
       /\ cart' = r.m.cart
       /\ isCheckingOut' = r.m.isCheckingOut
       /\ activeTab' = r.m.activeTab
       /\ width' = r.m.width
       /\ height' = r.m.height
       /\ quit' = r.quit

\* The program handles msg: the event loop hands it to Update and keeps the
\* model returned; tea.Quit ends the loop.  The frame shown after the step is
\* one of Views(Model): View reads the model and writes none of it.
Update(msg) ==
  /\ quit = "no"
  /\ WithinBounds(msg)
  /\ LET r == UpdateModel(Model, msg) IN
       /\ table' = r.m.table
       /\ cart' = r.m.cart
       /\ isCheckingOut' = r.m.isCheckingOut
       /\ activeTab' = r.m.activeTab
       /\ width' = r.m.width
       /\ height' = r.m.height
       /\ quit' = r.quit

Next == \E msg \in Msgs : Update(msg)

Spec == Init /\ [][Next]_vars

(* ---------------------------------------------------------------- states *)

cursor == table.cursor

\* The controller states of the transition table.
ShopBrowsing == quit = "no" /\ activeTab = ShopTab
CartReviewing == quit = "no" /\ activeTab = CartTab /\ ~isCheckingOut
ConfirmingCheckout == quit = "no" /\ activeTab = CartTab /\ isCheckingOut
Terminated == quit # "no"

\* What Update makes of the current state and a key.  The claims about one
\* event are stated over it, as invariants: in every reachable state, the
\* model Update returns for the event is the one the claim describes (this
\* covers the events that change nothing, which are stuttering steps).
After(k) == UpdateModel(Model, KeyMsg(k))

AllZero(c) == \A k \in DOMAIN c : c[k] = 0

(* ------------------------------------------------------------------- C1 *)

\* C1: in every reachable state every cart entry belongs to a catalog index
\* i and satisfies 0 <= cart[i] <= stock[i].
C1_CartWithinStock ==
  \A i \in DOMAIN cart : i \in Indices /\ 0 <= cart[i] /\ cart[i] <= Stock(i)

\* One entry stands at its stock ceiling and another has been brought back
\* to zero: the two boundaries of C1.
C1_Witness ==
  \E i, j \in DOMAIN cart : cart[i] = Stock(i) /\ cart[j] = 0

(* ------------------------------------------------------------------- C2 *)

C2_LastRow == Len(ourBeverages) - 1

\* C2: the cursor is always a catalog index; in the Shop tab navigate-down
\* moves it one row down except on the last row, navigate-up one row up
\* except on row 0, where it stays.
C2_CursorInCatalog ==
  /\ cursor \in Indices
  /\ ShopBrowsing =>
       /\ \A k \in LineDownKeys :
            After(k).m.table.cursor =
              IF cursor = C2_LastRow THEN cursor ELSE cursor + 1
       /\ \A k \in LineUpKeys :
            After(k).m.table.cursor = IF cursor = 0 THEN 0 ELSE cursor - 1

\* The cursor has been moved down to the last row, where navigate-down clamps.
C2_Witness == ShopBrowsing /\ cursor = C2_LastRow

(* ------------------------------------------------------------------- C3 *)

\* C3: checkoutPending is true only while the Cart tab is active.
C3_PendingOnlyInCart == isCheckingOut => activeTab = CartTab

\* A checkout is pending (and the tab keys are still being handled).
C3_Witness == isCheckingOut /\ quit = "no"

(* ------------------------------------------------------------------- C4 *)

\* n messages msg handled one after the other, starting from m.
RECURSIVE Repeat(_, _, _)
Repeat(m, msg, n) ==
  IF n = 0 THEN m ELSE UpdateModel(Repeat(m, msg, n - 1), msg).m

\* C4: an increment handled in the Shop tab raises cart[cursor] by exactly 1
\* below the stock and otherwise leaves the state as it was; the other
\* entries, the cursor, the tab and checkoutPending stay.  From a cart of
\* zeros, n increments in a row give cart[cursor] = min(n, stock[cursor]).
C4_IncrementStep ==
  ShopBrowsing =>
    \A k \in IncrementKeys :
      LET r == After(k) IN
        /\ r.quit = "no"
        /\ IF Get(cart, cursor) < Stock(cursor)
             THEN /\ Get(r.m.cart, cursor) = Get(cart, cursor) + 1
                  /\ \A j \in Indices \ {cursor} : Get(r.m.cart, j) = Get(cart, j)
                  /\ DOMAIN r.m.cart \subseteq Indices
                  /\ r.m.table.cursor = cursor
                  /\ r.m.activeTab = activeTab
                  /\ r.m.isCheckingOut = isCheckingOut
             ELSE r.m = Model
        /\ AllZero(cart) =>
             \A n \in 0 .. MaxPresses :
               Get(Repeat(Model, KeyMsg(k), n).cart, cursor) = Min(n, Stock(cursor))

\* The cursor is on an item whose quantity has been raised to its stock: the
\* next increment is the one at the ceiling.
C4_Witness == ShopBrowsing /\ Get(cart, cursor) = Stock(cursor)

(* ------------------------------------------------------------------- C5 *)

\* C5: a decrement handled in the Shop tab lowers cart[cursor] by exactly 1
\* above zero and otherwise leaves the state as it was; the other entries,
\* the cursor, the tab and checkoutPending stay.
C5_DecrementStep ==
  ShopBrowsing =>
    \A k \in DecrementKeys :
      LET r == After(k) IN
        /\ r.quit = "no"
        /\ IF Get(cart, cursor) > 0
             THEN /\ Get(r.m.cart, cursor) = Get(cart, cursor) - 1
                  /\ \A j \in Indices \ {cursor} : Get(r.m.cart, j) = Get(cart, j)
                  /\ DOMAIN r.m.cart \subseteq Indices
                  /\ r.m.table.cursor = cursor
                  /\ r.m.activeTab = activeTab
                  /\ r.m.isCheckingOut = isCheckingOut
             ELSE r.m = Model

\* The cursor is on an entry that decrements have brought back to zero while
\* another item is still in the cart.
C5_Witness ==
  /\ ShopBrowsing
  /\ cursor \in DOMAIN cart
  /\ cart[cursor] = 0
  /\ ~AllZero(cart)

(* ------------------------------------------------------------------- C6 *)

\* C6: enter in Cart.Reviewing with every quantity zero changes nothing and
\* leaves checkoutPending false, whether the cart has no entries or entries
\* of quantity 0.
C6_ConfirmEmptyCart ==
  CartReviewing /\ AllZero(cart) =>
    /\ After("enter") = [m |-> Model, quit |-> "no"]
    /\ ~After("enter").m.isCheckingOut

\* The Cart tab is shown with a cart whose entries have all been decremented
\* back to zero.
C6_Witness == CartReviewing /\ AllZero(cart) /\ cart # EmptyCart

(* ------------------------------------------------------------------- C7 *)

\* C7: enter in Cart.Reviewing with a quantity above 0 sets checkoutPending
\* and changes nothing else; enter in Shop.Browsing never sets it.
C7_ConfirmEntersCheckout ==
  /\ CartReviewing /\ ~AllZero(cart) =>
       After("enter") = [m |-> [Model EXCEPT !.isCheckingOut = TRUE], quit |-> "no"]
  /\ ShopBrowsing =>
       /\ ~After("enter").m.isCheckingOut
       /\ After("enter").m.activeTab = ShopTab

\* Cart.ConfirmingCheckout has been entered with items in the cart.
C7_Witness == ConfirmingCheckout /\ ~AllZero(cart)

(* ------------------------------------------------------------------- C8 *)

\* C8: from every state that has not terminated, "s" gives the Shop tab and
\* "c" the Cart tab, both with checkoutPending false, the cart and the
\* cursor as they were.
C8_TabKeys ==
  quit = "no" =>
    /\ After("s").m.activeTab = ShopTab
    /\ After("c").m.activeTab = CartTab
    /\ \A k \in {"s", "c"} :
         /\ After(k).quit = "no"
         /\ ~After(k).m.isCheckingOut
         /\ After(k).m.cart = cart
         /\ After(k).m.table.cursor = cursor

\* A checkout is pending with the cursor off row 0: the state in which "c"
\* has to clear checkoutPending and keep the cursor.
C8_Witness == ConfirmingCheckout /\ cursor # 0

(* ------------------------------------------------------------------- C9 *)

\* C9: "y" terminates the session exactly in Cart.ConfirmingCheckout; in
\* Shop.Browsing and Cart.Reviewing it changes nothing.
C9_AcceptOnlyWhenConfirming ==
  quit = "no" =>
    /\ After("y").quit # "no" <=> ConfirmingCheckout
    /\ ~ConfirmingCheckout => After("y").m = Model

\* The session has ended through the accept key.
C9_Witness == quit = "accepted"

(* ------------------------------------------------------------------ C10 *)

\* C10: "n" or esc in Cart.ConfirmingCheckout clears checkoutPending, keeps
\* the Cart tab, the cart and the cursor, and a following enter asks for
\* confirmation again; in every other state they change nothing.
C10_Decline ==
  quit = "no" =>
    \A k \in DeclineKeys :
      IF ConfirmingCheckout
        THEN /\ After(k) = [m |-> [Model EXCEPT !.isCheckingOut = FALSE], quit |-> "no"]
             /\ UpdateModel(After(k).m, KeyMsg("enter")) =
                  [m |-> Model, quit |-> "no"]
        ELSE After(k) = [m |-> Model, quit |-> "no"]

\* A checkout is pending on a cart of more than one item, the cursor moved:
\* the state a decline has to give back but for checkoutPending.
C10_Witness == ConfirmingCheckout /\ Cardinality(DOMAIN cart) > 1 /\ cursor # 0

(* ------------------------------------------------------------------ C11 *)

\* C11: from every state that has not terminated, each quit key returns
\* tea.Quit and the model as it was: tab, cursor, cart, checkoutPending and
\* viewport are those before the event.
C11_QuitKey ==
  quit = "no" =>
    \A k \in {"ctrl+c", "q"} : After(k) = [m |-> Model, quit |-> "quit key"]

\* The session was ended by a quit key while a checkout was pending.
C11_Witness == quit = "quit key" /\ isCheckingOut /\ activeTab = CartTab

(* ------------------------------------------------------------------ C12 *)

C13_Resize ==
  quit = "no" =>
    \A s \in Sizes :
      UpdateModel(Model, WindowSizeMsg(s[1], s[2])) =
        [m |-> [Model EXCEPT !.width = s[1], !.height = s[2]], quit |-> "no"]

\* A checkout is pending in a terminal that has been resized to 2 x 1.
C13_Witness == ConfirmingCheckout /\ width = 2 /\ height = 1

(* ------------------------------------------------------------------ C14 *)

\* C14: the cart changes only through an increment or a decrement handled
\* while the Shop tab is active; every other message, and every message
\* handled while the Cart tab is active, leaves it as it was.
C14_CartChangesOnlyInShop ==
  quit = "no" =>
    \A msg \in Msgs :
      UpdateModel(Model, msg).m.cart # cart =>
        /\ msg.type = "key"
        /\ msg.key \in IncrementKeys \cup DecrementKeys
        /\ activeTab = ShopTab

\* The Cart tab is shown with an entry at its stock ceiling: the quantity
\* keys pressed here must not move it.
C14_Witness ==
  quit = "no" /\ activeTab = CartTab /\ \E i \in DOMAIN cart : cart[i] = Stock(i)

(* ------------------------------------------------------------------ C15 *)

\* The events the transition table lists for the current state.
C15_Listed(msg) ==
  \/ msg.type = "size"
  \/ /\ msg.type = "key"
     /\ \/ msg.key \in {"ctrl+c", "q", "s", "c"}
        \/ ShopBrowsing /\
             msg.key \in {"up", "k", "down", "j", "+", "=", "right", "-", "left"}
        \/ CartReviewing /\ msg.key = "enter"
        \/ ConfirmingCheckout /\ msg.key \in {"y", "n", "esc"}

\* The keys with which the table pages through its rows.
C15_PagingKeys ==
  {"b", "pgup", "f", "pgdown", " ", "u", "ctrl+u", "d", "ctrl+d",
   "home", "g", "end", "G"}

\* Every message has a defined effect: the model returned is a model again,
\* its cursor and its cart keys catalog indices.
C15_Total ==
  /\ cursor \in Indices
  /\ \A msg \in Msgs :
       LET r == UpdateModel(Model, msg) IN
         /\ r.quit \in {"no", "quit key", "accepted"}
         /\ r.m.table.cursor \in Indices
         /\ Len(r.m.table.rows) = Len(ourBeverages)
         /\ DOMAIN r.m.cart \subseteq Indices
         /\ r.m.activeTab \in {ShopTab, CartTab}
         /\ r.m.isCheckingOut \in BOOLEAN

\* C15 as claimed: the transition is total, and a message the transition
\* table does not list for the current state returns the state unchanged.
C15_UnlistedUnchanged ==
  quit = "no" =>
    /\ C15_Total
    /\ \A msg \in Msgs :
         ~C15_Listed(msg) => UpdateModel(Model, msg) = [m |-> Model, quit |-> "no"]

\* C15 as amended: the transition is total, and a message the transition
\* table does not list for the current state returns the state unchanged,
\* except that in the Shop tab a paging key of the table moves the cursor,
\* within the catalog, and changes nothing else.
C15_UnlistedUnchangedButPaging ==
  quit = "no" =>
    /\ C15_Total
    /\ \A msg \in Msgs :
         ~C15_Listed(msg) =>
           LET r == UpdateModel(Model, msg) IN
             IF ShopBrowsing /\ msg.type = "key" /\ msg.key \in C15_PagingKeys
               THEN /\ r.quit = "no"
                    /\ r.m.table.cursor \in Indices
                    /\ r.m = [Model EXCEPT !.table.cursor = r.m.table.cursor]
               ELSE r = [m |-> Model, quit |-> "no"]

\* A checkout is pending with the cursor on row 3: every key but y, n, esc
\* and the quit and tab keys is unlisted here.
C15_Witness == ConfirmingCheckout /\ cursor = 3

(* ------------------------------------------------------------------ C16 *)

\* C16: render is deterministic: View returns one frame for a state, the
\* order of the item lines of the cart view included.  (View reads the model
\* and writes none of it.)
C16_RenderDeterministic == Cardinality(Views(Model)) = 1

(* ------------------------------------------------------------------ C17 *)

\* The lines of a cart view that name catalog item i.
C17_LinesOf(v, i) ==
  {k \in DOMAIN v : \E t \in DOMAIN v[k] : v[k][t] = Beverage(i).Name}

\* C17: in whatever order the cart is visited, the cart view holds exactly
\* one item line for each index with a quantity above 0 and none for the
\* others; it shows the empty-cart message exactly when no quantity is above
\* 0; with entries it ends with the confirmation prompt if checkoutPending
\* and with the checkout hint otherwise.
C17_CartViewContent ==
  \A o \in Orders(DOMAIN cart) :
    LET v == cartView(Model, o) IN
      /\ \A i \in Indices :
           LET lines == C17_LinesOf(v, i) IN
             IF Get(cart, i) > 0
               THEN \E k \in lines : lines = {k} /\ v[k] = ItemLine(i, cart[i])
               ELSE lines = {}
      /\ (\E k \in DOMAIN v : v[k] = EmptyCartText) <=> AllZero(cart)
      /\ ~AllZero(cart) =>
           v[Len(v)] = IF isCheckingOut THEN ConfirmPrompt ELSE CheckoutHint

\* A checkout is pending on a cart that holds an item and a zero entry.
C17_Witness ==
  /\ ConfirmingCheckout
  /\ \E i, j \in DOMAIN cart : cart[i] > 0 /\ cart[j] = 0

(* ------------------------------------------------------------------ C18 *)

\* The sum of price * quantity over the catalog indices up to n, in cents.
RECURSIVE C18_SumTo(_)
C18_SumTo(n) ==
  IF n < 0 THEN 0 ELSE Beverage(n).Price * Get(cart, n) + C18_SumTo(n - 1)

\* C18: in whatever order the cart is visited, a total line is shown exactly
\* when a quantity is above 0, and it states the sum over all catalog
\* indices of price[i] * cart[i].
C18_TotalIsExactSum ==
  \A o \in Orders(DOMAIN cart) :
    LET v == cartView(Model, o) IN
      /\ \A k \in DOMAIN v :
           v[k][1] = "  Total: " => v[k] = TotalLine(C18_SumTo(Len(ourBeverages) - 1))
      /\ (\E k \in DOMAIN v : v[k][1] = "  Total: ") <=> ~AllZero(cart)

\* The Cart tab shows two items of different quantities.
C18_Witness ==
  /\ activeTab = CartTab
  /\ \E i, j \in DOMAIN cart : i # j /\ cart[i] > 0 /\ cart[j] > cart[i]

(* ------------------------------------------------------------------ C19 *)

\* C19: while checkoutPending a quantity is above 0; no message handled in
\* Cart.ConfirmingCheckout changes the cart; so the accept key ends the
\* session only with items in the cart.
C19_PendingHasItems ==
  /\ isCheckingOut => ~AllZero(cart)
  /\ ConfirmingCheckout =>
       \A msg \in Msgs :
         LET r == UpdateModel(Model, msg) IN
           r.m.isCheckingOut \/ r.quit = "accepted" => r.m.cart = cart
  /\ quit = "accepted" => ~AllZero(cart)

\* The session ended through the accept key, the cart holding an item and a
\* zero entry.
C19_Witness ==
  quit = "accepted" /\ \E i, j \in DOMAIN cart : cart[i] > 0 /\ cart[j] = 0

(* ------------------------------------------------------------------ C20 *)

\* strconv.Atoi of what FormatInt writes.
RECURSIVE C20_ParseInt(_)
C20_ParseInt(d) ==
  IF d = <<>> THEN 0
  ELSE IF d[1] = "-" THEN 0 - C20_ParseInt(Tail(d))
  ELSE 10 * C20_ParseInt(SubSeq(d, 1, Len(d) - 1))
         + (CHOOSE n \in 0 .. 9 : Digit(n) = d[Len(d)])

\* C20: the table holds one row for each catalog index, its Qty column reads
\* cart[i] (0 if absent), and the Shop view shows these rows.
C20_RowsNeverStale ==
  /\ Len(table.rows) = Len(ourBeverages)
  /\ \A i \in Indices : C20_ParseInt(table.rows[i + 1][4]) = Get(cart, i)
  /\ activeTab = ShopTab =>
       \A o \in Orders(DOMAIN cart) :
         View(Model, o).content =
           TableView([table EXCEPT !.rows = BuildRows(cart)]) \o ShopHelp

\* The Shop tab is shown after two items were raised and one lowered again.
C20_Witness ==
  /\ ShopBrowsing
  /\ \E i, j \in DOMAIN cart : i # j /\ cart[i] > 1 /\ cart[j] > 0
  /\ cursor # 0

====
